---- MODULE Spec2Model ----
(***************************************************************************)
(* feature_ramp: percentage based feature ramping backed by Redis.         *)
(*                                                                         *)
(* The model follows feature_ramp/Feature.py.  The shared Redis server is  *)
(* the pair (store, registry); every Python variable holding a Feature     *)
(* object is a slot of inst.  One action is one call of a public method,   *)
(* including the _save it ends with.  The outcome of the latest call (the  *)
(* exception it raised, the value it returned) is kept in last.            *)
(*                                                                         *)
(* Where calls of several processes interleave (SpecSteps), one action is  *)
(* one Redis command of a call, and pc tells which command of its call a   *)
(* process is to send next.  Where Redis may be unreachable (SpecFailure), *)
(* a call may end in the error the Redis command raised.                   *)
(*                                                                         *)
(* Python values are records [kind, num, den, chars]: an int num, a float  *)
(* num/den, the floats inf and nan, a str of chars, and None.  Strings are *)
(* sequences of one-character strings, so that formatting, splitting and   *)
(* parsing are computed character by character.                            *)
(*                                                                         *)
(* hash() is Python's built-in string hash: a fixed function whose values  *)
(* are not computed here; it is chosen once, in Init, among functions that *)
(* take negative values and values beyond 100.                             *)
(*                                                                         *)
(* Every record is written with its fields in one fixed order: the order   *)
(* in which the field names first occur in this module.                    *)
(***************************************************************************)
EXTENDS Integers, Sequences, FiniteSets, TLC

\* Most entries the whitelist and the blacklist of one object hold together:
\* an add call is taken only below it.
MaxEntries == 2

(***************************************************************************)
(* Python values                                                           *)
(***************************************************************************)
None == [kind |-> "None", num |-> 0, den |-> 1, chars |-> <<>>]

PyInt(n) == [kind |-> "int", num |-> n, den |-> 1, chars |-> <<>>]

\* The float n/d (d a power of ten).
PyFloat(n, d) == [kind |-> "float", num |-> n, den |-> d, chars |-> <<>>]

PyInf == [kind |-> "inf", num |-> 0, den |-> 1, chars |-> <<>>]

PyNaN == [kind |-> "nan", num |-> 0, den |-> 1, chars |-> <<>>]

PyStr(s) == [kind |-> "str", num |-> 0, den |-> 1, chars |-> s]

\* A raised exception, where a value was expected.
Raise(e) == [kind |-> e, num |-> 0, den |-> 1, chars |-> <<>>]

IsError(v) == v.kind \in {"ValueError", "OverflowError"}

Digits == {"0", "1", "2", "3", "4", "5", "6", "7", "8", "9"}

DigitChar == <<"0", "1", "2", "3", "4", "5", "6", "7", "8", "9">>

DigitVal(c) == (CHOOSE j \in 1..10 : DigitChar[j] = c) - 1

RECURSIVE NatToStr(_)
NatToStr(n) ==
    IF n < 10 THEN <<DigitChar[n + 1]>>
    ELSE NatToStr(n \div 10) \o <<DigitChar[(n % 10) + 1]>>

\* str(v) of an int or a str, the conversion _is_ramped applies.
str(v) ==
    IF v.kind = "str" THEN v.chars
    ELSE IF v.num < 0 THEN <<"-">> \o NatToStr(-v.num) ELSE NatToStr(v.num)

RECURSIVE DigitsToNat(_)
DigitsToNat(s) ==
    IF s = <<>> THEN 0
    ELSE 10 * DigitsToNat(SubSeq(s, 1, Len(s) - 1)) + DigitVal(s[Len(s)])

RECURSIVE Pow10(_)
Pow10(e) == IF e = 0 THEN 1 ELSE 10 * Pow10(e - 1)

AllDigits(s) == \A j \in 1..Len(s) : s[j] \in Digits

\* The unsigned decimal literal s as a float, or ValueError.
ParseUnsigned(s, sign) ==
    LET dots == {j \in 1..Len(s) : s[j] = "."}
    IN  IF s = <<"i", "n", "f">> THEN PyInf
        ELSE IF s = <<"n", "a", "n">> THEN PyNaN
        ELSE IF dots = {} THEN
            IF s # <<>> /\ AllDigits(s)
            THEN PyFloat(sign * DigitsToNat(s), 1)
            ELSE Raise("ValueError")
        ELSE IF Cardinality(dots) > 1 THEN Raise("ValueError")
        ELSE LET p    == CHOOSE j \in dots : TRUE
                 ip   == SubSeq(s, 1, p - 1)
                 fp   == SubSeq(s, p + 1, Len(s))
             IN  IF AllDigits(ip) /\ AllDigits(fp) /\ Len(ip) + Len(fp) > 0
                 THEN PyFloat(sign * (DigitsToNat(ip) * Pow10(Len(fp)) + DigitsToNat(fp)),
                              Pow10(Len(fp)))
                 ELSE Raise("ValueError")

\* float(v): an int or a float converts, a str is parsed.
float(v) ==
    CASE v.kind = "int" -> PyFloat(v.num, 1)
      [] v.kind \in {"float", "inf", "nan"} -> v
      [] v.kind = "str" ->
            IF v.chars # <<>> /\ v.chars[1] = "-" THEN ParseUnsigned(Tail(v.chars), -1)
            ELSE IF v.chars # <<>> /\ v.chars[1] = "+" THEN ParseUnsigned(Tail(v.chars), 1)
            ELSE ParseUnsigned(v.chars, 1)

\* int(f) of a float: truncation toward zero; nan and inf do not convert.
int(f) ==
    CASE f.kind = "float" ->
            IF f.num >= 0 THEN PyInt(f.num \div f.den) ELSE PyInt(-((-f.num) \div f.den))
      [] f.kind = "nan" -> Raise("ValueError")
      [] f.kind = "inf" -> Raise("OverflowError")

(***************************************************************************)
(* Keys                                                                    *)
(***************************************************************************)
REDIS_NAMESPACE == <<"f", "e", "a", "t", "u", "r", "e">>

REDIS_VERSION == 1

REDIS_SET_KEY == <<"a", "c", "t", "i", "v", "e", "_", "f", "e", "a", "t", "u", "r", "e", "s">>

_get_redis_key(feature_name) ==
    REDIS_NAMESPACE \o <<".">> \o NatToStr(REDIS_VERSION) \o <<".">> \o feature_name

_get_redis_set_key == REDIS_NAMESPACE \o <<".">> \o REDIS_SET_KEY

\* key.split('.')[-1]
RECURSIVE _get_feature_name_from_redis_key(_)
_get_feature_name_from_redis_key(key) ==
    IF key = <<>> \/ key[Len(key)] = "." THEN <<>>
    ELSE _get_feature_name_from_redis_key(SubSeq(key, 1, Len(key) - 1))
         \o <<key[Len(key)]>>

(***************************************************************************)
(* Inputs the callers draw from                                            *)
(***************************************************************************)
Instances == {"f1"}

FeatureNames == {<<"x">>, <<"y", ".", "x">>}

GroupNames == {None, PyStr(<<"g">>)}

DefaultPercentages == {PyInt(0), PyInt(100), PyInt(150)}

Identifiers == {PyInt(3), PyStr(<<"3">>)}

PercentageInputs ==
    { PyInt(-1), PyInt(101),
      PyFloat(509, 10), PyFloat(-5, 10),
      PyStr(<<"5", "0">>), PyStr(<<"m", "e", "o", "w">>),
      PyStr(<<"i", "n", "f">>) }

Keys == {_get_redis_key(name) : name \in FeatureNames}

HashStrings ==
    FeatureNames \cup {g.chars : g \in GroupNames \ {None}} \cup {str(id) : id \in Identifiers}

\* Values hash() may give: negative, beyond 100, and small.
HashValues == {-101, 7, 150}

VARIABLES store, registry, inst, hash, last, pc

vars == <<store, registry, inst, hash, last, pc>>

(***************************************************************************)
(* Redis                                                                   *)
(***************************************************************************)
\* What redis.get gives for a key that holds nothing.
RedisNil == [json |-> "nil"]

\* An identifier or a percentage as a JSON value, and back.
ToJson(v) ==
    IF v.kind = "str" THEN [json |-> "string", text |-> v.chars]
    ELSE [json |-> "number", value |-> v.num]

FromJson(x) == IF x.json = "string" THEN PyStr(x.text) ELSE PyInt(x.value)

json_dumps(data) ==
    [ json       |-> "object",
      whitelist  |-> [e \in 1..Len(data.whitelist) |-> ToJson(data.whitelist[e])],
      blacklist  |-> [e \in 1..Len(data.blacklist) |-> ToJson(data.blacklist[e])],
      percentage |-> ToJson(PyInt(data.percentage)) ]

json_loads(text) ==
    [ whitelist  |-> [e \in 1..Len(text.whitelist) |-> FromJson(text.whitelist[e])],
      blacklist  |-> [e \in 1..Len(text.blacklist) |-> FromJson(text.blacklist[e])],
      percentage |-> FromJson(text.percentage).num ]

\* The dictionary _deserialize returns: has_data is false for the empty one.
_deserialize(redis_obj) ==
    IF redis_obj = RedisNil
    THEN [whitelist |-> <<>>, blacklist |-> <<>>, percentage |-> 0, has_data |-> FALSE]
    ELSE [ whitelist  |-> json_loads(redis_obj).whitelist,
           blacklist  |-> json_loads(redis_obj).blacklist,
           percentage |-> json_loads(redis_obj).percentage,
           has_data   |-> TRUE ]

\* Mutant: the blacklist entry is filled from the whitelist.
_get_redis_data_CopyPaste(f) ==
    [whitelist |-> f.whitelist, blacklist |-> f.whitelist, percentage |-> f.percentage]

_get_redis_data(f) ==
    [whitelist |-> f.whitelist, blacklist |-> f.blacklist, percentage |-> f.percentage]

(***************************************************************************)
(* Feature objects                                                         *)
(***************************************************************************)
Unbound == [bound |-> FALSE]

\* Mutant: default_percentage is taken also when a record is stored.
Feature_DefaultWins(st, feature_name, feature_group_name, default_percentage) ==
    LET redis_data == _deserialize(st[_get_redis_key(feature_name)])
    IN  [ feature_name       |-> feature_name,
          whitelist          |-> IF redis_data.has_data THEN redis_data.whitelist ELSE <<>>,
          blacklist          |-> IF redis_data.has_data THEN redis_data.blacklist ELSE <<>>,
          percentage         |-> default_percentage.num,
          bound              |-> TRUE,
          feature_group_name |-> feature_group_name ]

\* The object Feature(feature_name, feature_group_name, default_percentage)
\* builds from the store st.
Feature(st, feature_name, feature_group_name, default_percentage) ==
    LET redis_data == _deserialize(st[_get_redis_key(feature_name)])
    IN  [ feature_name       |-> feature_name,
          whitelist          |-> IF redis_data.has_data THEN redis_data.whitelist ELSE <<>>,
          blacklist          |-> IF redis_data.has_data THEN redis_data.blacklist ELSE <<>>,
          percentage         |-> IF redis_data.has_data THEN redis_data.percentage
                                 ELSE default_percentage.num,
          bound              |-> TRUE,
          feature_group_name |-> feature_group_name ]

InList(identifier, list) == \E e \in 1..Len(list) : list[e] = identifier

is_whitelisted(f, identifier) == InList(identifier, f.whitelist)

is_blacklisted(f, identifier) == InList(identifier, f.blacklist)

is_active(f) == f.percentage > 0

\* Mutant: the offset is taken from the feature name also when the object has
\* a group name.
consistent_offset_IgnoresGroup(f) == hash[f.feature_name] % 100

\* hash(feature_name) % 100 if not feature_group_name else hash(feature_group_name)
consistent_offset(f) ==
    IF f.feature_group_name = None \/ f.feature_group_name.chars = <<>>
    THEN hash[f.feature_name] % 100
    ELSE hash[f.feature_group_name.chars]

\* Mutant: the sum is not reduced modulo 100.
ramp_ranking_NoMod(f, identifier) == consistent_offset(f) + hash[str(identifier)]

ramp_ranking(f, identifier) == (consistent_offset(f) + hash[str(identifier)]) % 100

\* Mutant: the comparison is turned round.
_is_ramped_Reversed(f, identifier) == ramp_ranking(f, identifier) >= f.percentage

_is_ramped(f, identifier) == ramp_ranking(f, identifier) < f.percentage

\* Mutant: the blacklist is looked at before the whitelist.
IsVisible_BlacklistFirst(f, identifier) ==
    IF is_blacklisted(f, identifier) THEN FALSE
    ELSE IF is_whitelisted(f, identifier) THEN TRUE
    ELSE _is_ramped(f, identifier)

\* Mutant: the blacklist is not looked at.
IsVisible_BlacklistIgnored(f, identifier) ==
    IF is_whitelisted(f, identifier) THEN TRUE
    ELSE _is_ramped(f, identifier)

IsVisible(f, identifier) ==
    IF is_whitelisted(f, identifier) THEN TRUE
    ELSE IF is_blacklisted(f, identifier) THEN FALSE
    ELSE _is_ramped(f, identifier)

\* list.remove(x): drops the first occurrence.
ListRemove(list, x) ==
    LET p == CHOOSE e \in 1..Len(list) : list[e] = x /\ \A b \in 1..(e - 1) : list[b] # x
    IN  SubSeq(list, 1, p - 1) \o SubSeq(list, p + 1, Len(list))

Called(op, i, arg, err, ret) ==
    [inst |-> i, op |-> op, arg |-> arg, err |-> err, ret |-> ret]

\* Mutant: a record that is already stored is not overwritten.
_save_KeepsExisting(f) ==
    /\ store' = [store EXCEPT ![_get_redis_key(f.feature_name)] =
                     IF @ = RedisNil THEN json_dumps(_get_redis_data(f)) ELSE @]
    /\ registry' = registry \cup {_get_redis_key(f.feature_name)}

\* _save of the object f: redis.set, then redis.sadd.
_save(f) ==
    /\ store' = [store EXCEPT ![_get_redis_key(f.feature_name)] =
                     json_dumps(_get_redis_data(f))]
    /\ registry' = registry \cup {_get_redis_key(f.feature_name)}

\* all_features(): one name per member of the set of active features.
all_features == [rkey \in registry |-> _get_feature_name_from_redis_key(rkey)]

\* The dictionary all_features(include_data=True) holds for the object data, as
\* its set of (key, value) pairs: the lists are left out when they are empty.
FeatureData(data) ==
    {<<"percentage", data.percentage>>}
        \cup (IF data.whitelist # <<>> THEN {<<"whitelist", data.whitelist>>} ELSE {})
        \cup (IF data.blacklist # <<>> THEN {<<"blacklist", data.blacklist>>} ELSE {})

\* all_features(include_data=True): for each listed name, what Feature(name)
\* reads from the store st.
all_features_with_data(st) ==
    [feature \in {all_features[rkey] : rkey \in DOMAIN all_features} |->
        FeatureData(Feature(st, feature, None, PyInt(0)))]

(***************************************************************************)
(* Calls                                                                   *)
(***************************************************************************)
__init__(i, feature_name, feature_group_name, default_percentage) ==
    /\ inst' = [inst EXCEPT ![i] =
                   Feature(store, feature_name, feature_group_name, default_percentage)]
    /\ last' = Called("__init__", i, default_percentage, "", FALSE)
    /\ UNCHANGED <<store, registry, hash, pc>>

\* The class method all_features(include_data).
AllFeatures(include_data) ==
    /\ last' = Called("all_features", "", include_data, "",
                      IF include_data THEN all_features_with_data(store)
                      ELSE all_features)
    /\ UNCHANGED <<store, registry, inst, hash, pc>>

\* Mutant: the object is read again from Redis before it answers.
is_visible_Refreshes(i, identifier) ==
    /\ inst[i].bound
    /\ inst' = [inst EXCEPT ![i] =
                   Feature(store, @.feature_name, @.feature_group_name, PyInt(0))]
    /\ last' = Called("is_visible", i, identifier, "", IsVisible(inst'[i], identifier))
    /\ UNCHANGED <<store, registry, hash, pc>>

is_visible(i, identifier) ==
    /\ inst[i].bound
    /\ last' = Called("is_visible", i, identifier, "", IsVisible(inst[i], identifier))
    /\ UNCHANGED <<store, registry, inst, hash, pc>>

\* The body of set_percentage, which activate and deactivate call.
SetPercentage(op, i, percentage) ==
    LET f == float(percentage)
        p == IF IsError(f) THEN f ELSE int(f)
    IN  IF IsError(p) THEN
            /\ last' = Called(op, i, percentage, p.kind, FALSE)
            /\ UNCHANGED <<store, registry, inst, hash, pc>>
        ELSE IF p.num < 0 \/ p.num > 100 THEN
            /\ last' = Called(op, i, percentage, "ValueError", FALSE)
            /\ UNCHANGED <<store, registry, inst, hash, pc>>
        ELSE
            /\ inst' = [inst EXCEPT ![i].percentage = p.num]
            /\ _save(inst'[i])
            /\ last' = Called(op, i, percentage, "", FALSE)
            /\ UNCHANGED <<hash, pc>>

set_percentage(i, percentage) ==
    /\ inst[i].bound
    /\ SetPercentage("set_percentage", i, percentage)

activate(i) ==
    /\ inst[i].bound
    /\ SetPercentage("activate", i, PyInt(100))

deactivate(i) ==
    /\ inst[i].bound
    /\ SetPercentage("deactivate", i, PyInt(0))

\* Mutant: the blacklist is not emptied.
reset_settings_KeepsBlacklist(i) ==
    /\ inst[i].bound
    /\ inst' = [inst EXCEPT ![i].percentage = 0, ![i].whitelist = <<>>]
    /\ _save(inst'[i])
    /\ last' = Called("reset_settings", i, None, "", FALSE)
    /\ UNCHANGED <<hash, pc>>

reset_settings(i) ==
    /\ inst[i].bound
    /\ inst' = [inst EXCEPT ![i].percentage = 0, ![i].whitelist = <<>>,
                            ![i].blacklist = <<>>]
    /\ _save(inst'[i])
    /\ last' = Called("reset_settings", i, None, "", FALSE)
    /\ UNCHANGED <<hash, pc>>

\* Mutant: the object is emptied along with its record.
delete_ClearsInstance(i) ==
    /\ inst[i].bound
    /\ store' = [store EXCEPT ![_get_redis_key(inst[i].feature_name)] = RedisNil]
    /\ registry' = registry \ {_get_redis_key(inst[i].feature_name)}
    /\ inst' = [inst EXCEPT ![i].percentage = 0, ![i].whitelist = <<>>,
                            ![i].blacklist = <<>>]
    /\ last' = Called("delete", i, None, "", FALSE)
    /\ UNCHANGED <<hash, pc>>

\* Mutant: the key stays in the set of active features.
delete_NoSrem(i) ==
    /\ inst[i].bound
    /\ store' = [store EXCEPT ![_get_redis_key(inst[i].feature_name)] = RedisNil]
    /\ last' = Called("delete", i, None, "", FALSE)
    /\ UNCHANGED <<registry, inst, hash, pc>>

delete(i) ==
    /\ inst[i].bound
    /\ store' = [store EXCEPT ![_get_redis_key(inst[i].feature_name)] = RedisNil]
    /\ registry' = registry \ {_get_redis_key(inst[i].feature_name)}
    /\ last' = Called("delete", i, None, "", FALSE)
    /\ UNCHANGED <<inst, hash, pc>>

add_to_whitelist(i, identifier) ==
    /\ inst[i].bound
    /\ Len(inst[i].whitelist) + Len(inst[i].blacklist) < MaxEntries
    /\ inst' = [inst EXCEPT ![i].whitelist = Append(@, identifier)]
    /\ _save(inst'[i])
    /\ last' = Called("add_to_whitelist", i, identifier, "", FALSE)
    /\ UNCHANGED <<hash, pc>>

\* Mutant: an identifier that is not in the whitelist is skipped and the object
\* is saved.
remove_from_whitelist_IgnoresAbsent(i, identifier) ==
    /\ inst[i].bound
    /\ IF is_whitelisted(inst[i], identifier) THEN
            /\ inst' = [inst EXCEPT ![i].whitelist = ListRemove(@, identifier)]
            /\ _save(inst'[i])
            /\ last' = Called("remove_from_whitelist", i, identifier, "", FALSE)
            /\ UNCHANGED <<hash, pc>>
       ELSE
            /\ _save(inst[i])
            /\ last' = Called("remove_from_whitelist", i, identifier, "ValueError", FALSE)
            /\ UNCHANGED <<inst, hash, pc>>

remove_from_whitelist(i, identifier) ==
    /\ inst[i].bound
    /\ IF is_whitelisted(inst[i], identifier) THEN
            /\ inst' = [inst EXCEPT ![i].whitelist = ListRemove(@, identifier)]
            /\ _save(inst'[i])
            /\ last' = Called("remove_from_whitelist", i, identifier, "", FALSE)
            /\ UNCHANGED <<hash, pc>>
       ELSE
            /\ last' = Called("remove_from_whitelist", i, identifier, "ValueError", FALSE)
            /\ UNCHANGED <<store, registry, inst, hash, pc>>

add_to_blacklist(i, identifier) ==
    /\ inst[i].bound
    /\ Len(inst[i].whitelist) + Len(inst[i].blacklist) < MaxEntries
    /\ inst' = [inst EXCEPT ![i].blacklist = Append(@, identifier)]
    /\ _save(inst'[i])
    /\ last' = Called("add_to_blacklist", i, identifier, "", FALSE)
    /\ UNCHANGED <<hash, pc>>

remove_from_blacklist(i, identifier) ==
    /\ inst[i].bound
    /\ IF is_blacklisted(inst[i], identifier) THEN
            /\ inst' = [inst EXCEPT ![i].blacklist = ListRemove(@, identifier)]
            /\ _save(inst'[i])
            /\ last' = Called("remove_from_blacklist", i, identifier, "", FALSE)
            /\ UNCHANGED <<hash, pc>>
       ELSE
            /\ last' = Called("remove_from_blacklist", i, identifier, "ValueError", FALSE)
            /\ UNCHANGED <<store, registry, inst, hash, pc>>

(***************************************************************************)
(* Calls in which a Redis command of _save raises                          *)
(***************************************************************************)
\* _save of the object f when redis.set raises ("set"), or when redis.set has
\* run and redis.sadd raises ("sadd").
_save_raises(f, at) ==
    /\ store' = IF at = "sadd"
                THEN [store EXCEPT ![_get_redis_key(f.feature_name)] =
                         json_dumps(_get_redis_data(f))]
                ELSE store
    /\ UNCHANGED registry

\* A mutating call op(arg) on i whose assignments give the object f and whose
\* _save raises: the error leaves the method as it is.
SaveRaises(op, i, arg, f, at) ==
    /\ inst' = [inst EXCEPT ![i] = f]
    /\ _save_raises(f, at)
    /\ last' = Called(op, i, arg, "RedisError", FALSE)
    /\ UNCHANGED <<hash, pc>>

set_percentage_raises(i, percentage, at) ==
    /\ inst[i].bound
    /\ ~IsError(float(percentage))
    /\ ~IsError(int(float(percentage)))
    /\ int(float(percentage)).num \in 0..100
    /\ SaveRaises("set_percentage", i, percentage,
                  [inst[i] EXCEPT !.percentage = int(float(percentage)).num], at)

reset_settings_raises(i, at) ==
    /\ inst[i].bound
    /\ SaveRaises("reset_settings", i, None,
                  [inst[i] EXCEPT !.percentage = 0, !.whitelist = <<>>,
                                  !.blacklist = <<>>], at)

add_to_whitelist_raises(i, identifier, at) ==
    /\ inst[i].bound
    /\ Len(inst[i].whitelist) + Len(inst[i].blacklist) < MaxEntries
    /\ SaveRaises("add_to_whitelist", i, identifier,
                  [inst[i] EXCEPT !.whitelist = Append(@, identifier)], at)

remove_from_whitelist_raises(i, identifier, at) ==
    /\ inst[i].bound
    /\ is_whitelisted(inst[i], identifier)
    /\ SaveRaises("remove_from_whitelist", i, identifier,
                  [inst[i] EXCEPT !.whitelist = ListRemove(@, identifier)], at)

add_to_blacklist_raises(i, identifier, at) ==
    /\ inst[i].bound
    /\ Len(inst[i].whitelist) + Len(inst[i].blacklist) < MaxEntries
    /\ SaveRaises("add_to_blacklist", i, identifier,
                  [inst[i] EXCEPT !.blacklist = Append(@, identifier)], at)

remove_from_blacklist_raises(i, identifier, at) ==
    /\ inst[i].bound
    /\ is_blacklisted(inst[i], identifier)
    /\ SaveRaises("remove_from_blacklist", i, identifier,
                  [inst[i] EXCEPT !.blacklist = ListRemove(@, identifier)], at)

(***************************************************************************)
(* Redis commands of calls that interleave                                 *)
(***************************************************************************)
\* set_percentage(percentage) on i, as far as redis.set of _save.
set_percentage_set(i, percentage) ==
    /\ inst[i].bound
    /\ pc[i] = "idle"
    /\ inst' = [inst EXCEPT ![i].percentage = percentage.num]
    /\ store' = [store EXCEPT ![_get_redis_key(inst[i].feature_name)] =
                     json_dumps(_get_redis_data(inst'[i]))]
    /\ pc' = [pc EXCEPT ![i] = "sadd"]
    /\ last' = Called("redis.set", i, percentage, "", FALSE)
    /\ UNCHANGED <<registry, hash>>

\* redis.sadd of _save on i: the mutating call returns.
_save_sadd(i) ==
    /\ pc[i] = "sadd"
    /\ registry' = registry \cup {_get_redis_key(inst[i].feature_name)}
    /\ pc' = [pc EXCEPT ![i] = "idle"]
    /\ last' = Called("redis.sadd", i, None, "", FALSE)
    /\ UNCHANGED <<store, inst, hash>>

\* delete() on i, as far as redis.delete.
delete_delete(i) ==
    /\ inst[i].bound
    /\ pc[i] = "idle"
    /\ store' = [store EXCEPT ![_get_redis_key(inst[i].feature_name)] = RedisNil]
    /\ pc' = [pc EXCEPT ![i] = "srem"]
    /\ last' = Called("redis.delete", i, None, "", FALSE)
    /\ UNCHANGED <<registry, inst, hash>>

\* redis.srem of delete() on i: delete returns.
delete_srem(i) ==
    /\ pc[i] = "srem"
    /\ registry' = registry \ {_get_redis_key(inst[i].feature_name)}
    /\ pc' = [pc EXCEPT ![i] = "idle"]
    /\ last' = Called("redis.srem", i, None, "", FALSE)
    /\ UNCHANGED <<store, inst, hash>>

(***************************************************************************)
(* Specifications: one caller, calls one after the other                   *)
(***************************************************************************)
Init ==
    /\ store = [key \in Keys |-> RedisNil]
    /\ registry = {}
    /\ inst = [i \in Instances |-> Unbound]
    /\ hash \in {[s \in HashStrings |-> v] : v \in HashValues}
    /\ last = Called("", "", None, "", FALSE)
    /\ pc = [i \in Instances |-> "idle"]

CallsOn(I, N, G, D, Ids, P) ==
    \/ \E i \in I, name \in N, g \in G, d \in D : __init__(i, name, g, d)
    \/ \E i \in I, id \in Ids : is_visible(i, id)
    \/ \E i \in I, p \in P : set_percentage(i, p)
    \/ \E i \in I : activate(i)
    \/ \E i \in I : deactivate(i)
    \/ \E i \in I : reset_settings(i)
    \/ \E i \in I : delete(i)
    \/ \E i \in I, id \in Ids : add_to_whitelist(i, id)
    \/ \E i \in I, id \in Ids : remove_from_whitelist(i, id)
    \/ \E i \in I, id \in Ids : add_to_blacklist(i, id)
    \/ \E i \in I, id \in Ids : remove_from_blacklist(i, id)
    \/ \E include_data \in BOOLEAN : AllFeatures(include_data)

\* One feature, every kind of argument.
Next ==
    CallsOn(Instances, {<<"x">>}, GroupNames, DefaultPercentages, Identifiers,
            PercentageInputs)

Spec == Init /\ [][Next]_vars

\* Two features, one of them with a dotted name; one identifier.
NextRegistry ==
    CallsOn(Instances, FeatureNames, {None}, {PyInt(0)}, {PyInt(3)}, {PyInt(101)})

SpecRegistry == Init /\ [][NextRegistry]_vars

(***************************************************************************)
(* Specification: two objects of different features and the ramp           *)
(***************************************************************************)
InstancePair == {"f1", "f2"}

RampPercentages == {PyInt(0), PyInt(50), PyInt(100)}

\* hash is any function from the hashed strings to HashValues.
InitRamp ==
    /\ store = [key \in Keys |-> RedisNil]
    /\ registry = {}
    /\ inst = [i \in InstancePair |-> Unbound]
    /\ hash \in [HashStrings -> HashValues]
    /\ last = Called("", "", None, "", FALSE)
    /\ pc = [i \in InstancePair |-> "idle"]

\* f1 is built for "x" and f2 for "y.x", with or without the group name, at
\* the percentages of RampPercentages; identifier 3 is looked up on both and
\* put on the lists of f1, and the percentage of f1 is set.
NextRamp ==
    \/ \E g \in GroupNames, d \in RampPercentages : __init__("f1", <<"x">>, g, d)
    \/ \E g \in GroupNames, d \in RampPercentages :
          __init__("f2", <<"y", ".", "x">>, g, d)
    \/ \E i \in InstancePair, id \in Identifiers : is_visible(i, id)
    \/ add_to_whitelist("f1", PyInt(3))
    \/ add_to_blacklist("f1", PyInt(3))
    \/ \E p \in RampPercentages : set_percentage("f1", p)

SpecRamp == InitRamp /\ [][NextRamp]_vars

(***************************************************************************)
(* Specification: two objects of one feature, calls one after the other    *)
(***************************************************************************)
InitPair ==
    /\ store = [key \in Keys |-> RedisNil]
    /\ registry = {}
    /\ inst = [i \in InstancePair |-> Unbound]
    /\ hash \in {[s \in HashStrings |-> v] : v \in HashValues}
    /\ last = Called("", "", None, "", FALSE)
    /\ pc = [i \in InstancePair |-> "idle"]

\* f1 and f2 are both built for "x"; their calls alternate in any order.
NextPair ==
    CallsOn(InstancePair, {<<"x">>}, {None}, {PyInt(0)}, {PyInt(3)}, {PyInt(50)})

SpecPair == InitPair /\ [][NextPair]_vars

(***************************************************************************)
(* Specification: one object, Redis commands may raise                     *)
(***************************************************************************)
SaveSteps == {"set", "sadd"}

NextFailure ==
    \/ CallsOn(Instances, {<<"x">>}, {None}, {PyInt(0)}, {PyInt(3)}, {PyInt(50)})
    \/ \E i \in Instances, at \in SaveSteps : set_percentage_raises(i, PyInt(50), at)
    \/ \E i \in Instances, at \in SaveSteps : reset_settings_raises(i, at)
    \/ \E i \in Instances, at \in SaveSteps : add_to_whitelist_raises(i, PyInt(3), at)
    \/ \E i \in Instances, at \in SaveSteps :
          remove_from_whitelist_raises(i, PyInt(3), at)
    \/ \E i \in Instances, at \in SaveSteps : add_to_blacklist_raises(i, PyInt(3), at)
    \/ \E i \in Instances, at \in SaveSteps :
          remove_from_blacklist_raises(i, PyInt(3), at)

SpecFailure == Init /\ [][NextFailure]_vars

(***************************************************************************)
(* Specification: two processes, one object each of one feature, whose     *)
(* Redis commands interleave                                               *)
(***************************************************************************)
NextSteps ==
    \/ \E i \in InstancePair :
          pc[i] = "idle" /\ __init__(i, <<"x">>, None, PyInt(0))
    \/ \E i \in InstancePair, p \in RampPercentages : set_percentage_set(i, p)
    \/ \E i \in InstancePair : _save_sadd(i)
    \/ \E i \in InstancePair : delete_delete(i)
    \/ \E i \in InstancePair : delete_srem(i)

SpecSteps == InitPair /\ [][NextSteps]_vars

(***************************************************************************)
(* Properties                                                              *)
(***************************************************************************)
Mutators ==
    {"activate", "deactivate", "set_percentage", "reset_settings",
     "add_to_whitelist", "remove_from_whitelist",
     "add_to_blacklist", "remove_from_blacklist"}

\* The object the latest call was made on.
Target == inst[last.inst]

\* The latest call was op and returned normally.
Returned(op) == last.op = op /\ last.err = ""

\* What Feature(name) builds now for the name of the object f.
Fresh(f, default_percentage) ==
    Feature(store, f.feature_name, None, default_percentage)

StoredAt(f) == store[_get_redis_key(f.feature_name)]

\* The record (percentage, whitelist, blacklist) as it is written to Redis.
Record(percentage, whitelist, blacklist) ==
    [json |-> "object", whitelist |-> whitelist, blacklist |-> blacklist,
     percentage |-> [json |-> "number", value |-> percentage]]

Count(list, x) == Cardinality({e \in 1..Len(list) : list[e] = x})

\* C1: whenever an identifier is in the whitelist of an object, is_visible of
\* that identifier is true on that object, at any percentage and also when the
\* identifier is in the blacklist too; the latest is_visible call returned so.
C1_WhitelistPrecedence ==
    /\ \A i \in Instances, id \in Identifiers :
          (inst[i].bound /\ Count(inst[i].whitelist, id) > 0)
              => IsVisible(inst[i], id)
    /\ (last.op = "is_visible" /\ Count(Target.whitelist, last.arg) > 0)
          => last.ret = TRUE

\* is_visible answered true for an identifier in both lists, at percentage 0.
C1_Witness ==
    /\ last.op = "is_visible"
    /\ Count(Target.whitelist, last.arg) > 0
    /\ Count(Target.blacklist, last.arg) > 0
    /\ Target.percentage = 0
    /\ last.ret = TRUE

\* C2: whenever an identifier is in the blacklist of an object and not in its
\* whitelist, is_visible of that identifier is false on that object, at any
\* percentage; the latest is_visible call returned so.
C2_BlacklistDenial ==
    /\ \A i \in Instances, id \in Identifiers :
          (/\ inst[i].bound
           /\ Count(inst[i].blacklist, id) > 0
           /\ Count(inst[i].whitelist, id) = 0)
              => ~IsVisible(inst[i], id)
    /\ (/\ last.op = "is_visible"
        /\ Count(Target.blacklist, last.arg) > 0
        /\ Count(Target.whitelist, last.arg) = 0)
          => last.ret = FALSE

\* is_visible answered false for a blacklisted identifier at percentage 100.
C2_Witness ==
    /\ last.op = "is_visible"
    /\ Count(Target.blacklist, last.arg) > 0
    /\ Count(Target.whitelist, last.arg) = 0
    /\ Target.percentage = 100
    /\ last.ret = FALSE

\* C3: after a mutating call that returned normally, the percentage of the
\* object and the percentage stored in Redis both lie in 0..100, whatever
\* default_percentage the object was built with.
C3_PercentageInRange ==
    (last.op \in Mutators /\ last.err = "")
        => /\ Target.percentage \in 0..100
           /\ json_loads(StoredAt(Target)).percentage \in 0..100

\* The integer a finite float n/d truncates to, toward zero.
TruncTowardZero(f) ==
    LET a == IF f.num < 0 THEN -f.num ELSE f.num
    IN  CHOOSE t \in (-a)..a :
            IF f.num >= 0 THEN t * f.den <= f.num /\ f.num < (t + 1) * f.den
            ELSE (t - 1) * f.den < f.num /\ f.num <= t * f.den

\* v parses as a number whose truncation lies in 0..100.
InRangeNumber(v) ==
    /\ float(v).kind = "float"
    /\ TruncTowardZero(float(v)) \in 0..100

\* C4: set_percentage(v) returns normally exactly when v is a number whose
\* truncation toward zero lies in 0..100, and then the percentage of the object
\* and the stored percentage are that integer; otherwise it raises ValueError
\* and the object, the stored records and the set of active features stay as
\* they were.
C4_SetPercentageContract ==
    [][ last'.op = "set_percentage" =>
          IF InRangeNumber(last'.arg)
          THEN /\ last'.err = ""
               /\ inst'[last'.inst].percentage = TruncTowardZero(float(last'.arg))
               /\ json_loads(store'[_get_redis_key(inst'[last'.inst].feature_name)]).percentage
                      = TruncTowardZero(float(last'.arg))
          ELSE /\ last'.err = "ValueError"
               /\ UNCHANGED <<inst, store, registry>> ]_vars

\* C5: right after a mutating call that returned normally, Feature(name) for
\* the same name, with any default_percentage, has the percentage, whitelist
\* and blacklist of the object the call was made on.
C5_WriteThroughRoundTrip ==
    (last.op \in Mutators /\ last.err = "")
        => \A d \in DefaultPercentages :
              /\ Fresh(Target, d).percentage = Target.percentage
              /\ Fresh(Target, d).whitelist = Target.whitelist
              /\ Fresh(Target, d).blacklist = Target.blacklist

\* activate() on an object holding an int and a str identifier: all of it is
\* read back.
C5_Witness ==
    /\ Returned("activate")
    /\ Fresh(Target, PyInt(0)).percentage = 100
    /\ Fresh(Target, PyInt(0)).whitelist = <<PyStr(<<"3">>)>>
    /\ Fresh(Target, PyInt(0)).blacklist = <<PyInt(3)>>

\* C6: between calls, a key is in the set of active features exactly when a
\* record is stored at it.
C6_RegistryIffStored ==
    \A key \in Keys : (key \in registry) <=> (store[key] # RedisNil)

\* A delete left one feature stored and listed and the other one neither.
C6_Witness ==
    /\ Returned("delete")
    /\ \E key \in Keys : key \in registry /\ store[key] # RedisNil
    /\ \E key \in Keys : key \notin registry /\ store[key] = RedisNil

\* C7: after delete() nothing is stored at the key of the feature, the key is
\* not in the set of active features, all_features() does not list the name of
\* the feature, and Feature(name) has the default percentage and empty lists.
C7_DeleteRemoves ==
    last.op = "delete"
        => /\ last.err = ""
           /\ StoredAt(Target) = RedisNil
           /\ _get_redis_key(Target.feature_name) \notin registry
           /\ \A rkey \in DOMAIN all_features :
                 all_features[rkey] # Target.feature_name
           /\ \A d \in DefaultPercentages :
                 /\ Fresh(Target, d).percentage = d.num
                 /\ Fresh(Target, d).whitelist = <<>>
                 /\ Fresh(Target, d).blacklist = <<>>

\* C8: after reset_settings() the object has percentage 0 and empty lists, the
\* record (0, [], []) is stored at its key, and the key is in the set of
\* active features.
C8_ResetSettings ==
    last.op = "reset_settings"
        => /\ last.err = ""
           /\ Target.percentage = 0
           /\ Target.whitelist = <<>>
           /\ Target.blacklist = <<>>
           /\ StoredAt(Target) = Record(0, <<>>, <<>>)
           /\ _get_redis_key(Target.feature_name) \in registry

\* reset_settings() was the latest call, on an object built with a group name.
C8_Witness ==
    /\ Returned("reset_settings")
    /\ Target.feature_group_name # None
    /\ StoredAt(Target) = Record(0, <<>>, <<>>)

\* C9: after add_to_whitelist or add_to_blacklist, no identifier occurs more
\* than once in the whitelist, nor in the blacklist, that Feature(name) reads
\* back.
C9_AddKeepsListsDuplicateFree ==
    (last.op \in {"add_to_whitelist", "add_to_blacklist"} /\ last.err = "")
        => \A id \in Identifiers :
              /\ Count(Fresh(Target, PyInt(0)).whitelist, id) <= 1
              /\ Count(Fresh(Target, PyInt(0)).blacklist, id) <= 1

\* C10: after remove_from_whitelist(id) (remove_from_blacklist(id)) returned
\* normally, id is in the whitelist (blacklist) neither of the object nor of
\* what Feature(name) reads back.
C10_RemovedIsGone ==
    /\ Returned("remove_from_whitelist")
          => /\ ~is_whitelisted(Target, last.arg)
             /\ Count(Fresh(Target, PyInt(0)).whitelist, last.arg) = 0
    /\ Returned("remove_from_blacklist")
          => /\ ~is_blacklisted(Target, last.arg)
             /\ Count(Fresh(Target, PyInt(0)).blacklist, last.arg) = 0

\* C11: remove_from_whitelist(id) (remove_from_blacklist(id)) on an object whose
\* whitelist (blacklist) does not hold id raises ValueError, and the objects,
\* the stored records and the set of active features stay as they were.
C11_RemoveAbsentFails ==
    [][ /\ (/\ last'.op = "remove_from_whitelist"
            /\ ~is_whitelisted(inst[last'.inst], last'.arg))
              => /\ last'.err = "ValueError"
                 /\ UNCHANGED <<inst, store, registry>>
        /\ (/\ last'.op = "remove_from_blacklist"
            /\ ~is_blacklisted(inst[last'.inst], last'.arg))
              => /\ last'.err = "ValueError"
                 /\ UNCHANGED <<inst, store, registry>> ]_vars

\* remove_from_whitelist raised ValueError for an identifier that only the
\* blacklist holds, on an object whose record is stored.
C11_Witness ==
    /\ last.op = "remove_from_whitelist"
    /\ last.err = "ValueError"
    /\ is_blacklisted(Target, last.arg)
    /\ ~is_whitelisted(Target, last.arg)
    /\ StoredAt(Target) # RedisNil

\* C12: between calls, all_features() lists exactly the features that were
\* saved and not deleted since: every such feature once, under the name it was
\* built with, and nothing else.
C12_AllFeaturesExact ==
    LET saved == {name \in FeatureNames : store[_get_redis_key(name)] # RedisNil}
    IN  /\ {all_features[rkey] : rkey \in DOMAIN all_features} = saved
        /\ Cardinality(DOMAIN all_features) = Cardinality(saved)

\* The name a feature was built with, from the key its record is stored at.
NameOf(rkey) == CHOOSE name \in FeatureNames : _get_redis_key(name) = rkey

\* C13: all_features(include_data=True) returns one mapping for every listed
\* feature, under the name of the feature; the mapping has 'percentage' with
\* the stored percentage, 'whitelist' exactly when the stored whitelist is not
\* empty, then with the stored list, and 'blacklist' likewise.
C13_AllFeaturesWithData ==
    (last.op = "all_features" /\ last.arg = TRUE)
        => /\ DOMAIN last.ret = {NameOf(rkey) : rkey \in registry}
           /\ \A rkey \in registry :
                 last.ret[NameOf(rkey)] = FeatureData(json_loads(store[rkey]))

\* C15: Feature(name, group, default_percentage) writes nothing to the stored
\* records or the set of active features; when nothing is stored for the name
\* the object has percentage default_percentage and empty lists, and when a
\* record is stored the object has the stored percentage and lists.
C15_DefaultsOnAbsence ==
    [][ last'.op = "__init__" =>
          /\ UNCHANGED <<store, registry>>
          /\ IF store[_get_redis_key(inst'[last'.inst].feature_name)] = RedisNil
             THEN /\ inst'[last'.inst].percentage = last'.arg.num
                  /\ inst'[last'.inst].whitelist = <<>>
                  /\ inst'[last'.inst].blacklist = <<>>
             ELSE _get_redis_data(inst'[last'.inst])
                      = json_loads(store[_get_redis_key(inst'[last'.inst].feature_name)])
      ]_vars

\* An object was built with default_percentage 100 for a name that has no
\* record: its percentage is 100 and nothing is stored or listed.
C15_Witness ==
    /\ last.op = "__init__"
    /\ last.arg = PyInt(100)
    /\ StoredAt(Target) = RedisNil
    /\ Target.percentage = 100
    /\ registry = {}

\* Both objects are built, for different features, with the same group name.
SameGroup ==
    /\ inst["f1"].bound /\ inst["f2"].bound
    /\ inst["f1"].feature_name # inst["f2"].feature_name
    /\ inst["f1"].feature_group_name # None
    /\ inst["f1"].feature_group_name = inst["f2"].feature_group_name

Unlisted(f, id) == ~is_whitelisted(f, id) /\ ~is_blacklisted(f, id)

\* C14: two objects of different features with the same group name and the
\* same percentage give the same is_visible for every identifier that is on no
\* list of either; the latest is_visible call returned what the other object
\* gives.
C14_GroupSameVisibility ==
    (SameGroup /\ inst["f1"].percentage = inst["f2"].percentage)
        => \A id \in Identifiers :
              (Unlisted(inst["f1"], id) /\ Unlisted(inst["f2"], id))
                  => /\ IsVisible(inst["f1"], id) = IsVisible(inst["f2"], id)
                     /\ (last.op = "is_visible" /\ last.arg = id)
                           => /\ last.ret = IsVisible(inst["f1"], id)
                              /\ last.ret = IsVisible(inst["f2"], id)

\* is_visible answered true on f2 at percentage 50 for both objects in one
\* group, with feature names whose hashes differ modulo 100.
C14_Witness ==
    /\ SameGroup
    /\ inst["f1"].percentage = 50 /\ inst["f2"].percentage = 50
    /\ hash[inst["f1"].feature_name] % 100 # hash[inst["f2"].feature_name] % 100
    /\ last.op = "is_visible" /\ last.inst = "f2"
    /\ Unlisted(inst["f1"], last.arg) /\ Unlisted(inst["f2"], last.arg)
    /\ last.ret = TRUE

\* C20: for every object and identifier the ramp ranking lies in 0..99, also
\* when the hash of the group name is negative or beyond 100; so at percentage
\* 100 every identifier that is not blacklisted is visible, and at percentage 0
\* an identifier is visible exactly when it is whitelisted. The latest
\* is_visible call returned so.
C20_RampRankingInRange ==
    /\ \A i \in InstancePair, id \in Identifiers :
          inst[i].bound
              => /\ ramp_ranking(inst[i], id) \in 0..99
                 /\ (inst[i].percentage = 100 /\ ~is_blacklisted(inst[i], id))
                       => IsVisible(inst[i], id)
                 /\ inst[i].percentage = 0
                       => (IsVisible(inst[i], id) <=> is_whitelisted(inst[i], id))
    /\ last.op = "is_visible"
          => /\ (Target.percentage = 100 /\ ~is_blacklisted(Target, last.arg))
                   => last.ret = TRUE
             /\ Target.percentage = 0
                   => (last.ret <=> is_whitelisted(Target, last.arg))

\* is_visible answered true at percentage 100 on an object whose group name
\* and identifier both hash to a negative number.
C20_Witness ==
    /\ last.op = "is_visible"
    /\ last.ret = TRUE
    /\ Target.percentage = 100
    /\ Unlisted(Target, last.arg)
    /\ Target.feature_group_name # None
    /\ hash[Target.feature_group_name.chars] < 0
    /\ hash[str(last.arg)] < 0

\* C17: with two objects of one feature, after a mutating call that returned
\* normally the stored record is the whole record of the object the call was
\* made on, so it differs from the record of the other object whenever that
\* one holds something else: what the other object had saved is gone, and no
\* error was raised.
C17_LastWriterWins ==
    (last.op \in Mutators /\ last.err = "")
        => /\ StoredAt(Target) = json_dumps(_get_redis_data(Target))
           /\ \A j \in InstancePair :
                 (/\ inst[j].bound
                  /\ inst[j].feature_name = Target.feature_name
                  /\ _get_redis_data(inst[j]) # _get_redis_data(Target))
                     => StoredAt(Target) # json_dumps(_get_redis_data(inst[j]))

\* f1 holds identifier 3 in its whitelist, f2 has just set percentage 50
\* without error, and the stored record has percentage 50 and an empty
\* whitelist: the addition f1 had saved is lost.
C17_Witness ==
    /\ Returned("set_percentage") /\ last.inst = "f2"
    /\ inst["f1"].bound
    /\ _get_redis_data(inst["f1"]) = [whitelist |-> <<PyInt(3)>>, blacklist |-> <<>>,
                                      percentage |-> 0]
    /\ StoredAt(Target) = Record(50, <<>>, <<>>)
    /\ _get_redis_key(Target.feature_name) \in registry

\* C18: the percentage and lists of an object that was built change only in a
\* mutating call made on that object (or when the object is built anew); any
\* other call, a save or a delete of the same feature through another object
\* included, leaves them and the result of is_visible on that object as they
\* were. is_visible changes no object, no stored record and not the
\* set of active features, and returns what the object as it stands gives.
C18_NoAutomaticRefresh ==
    [][ /\ \A i \in InstancePair :
              (/\ inst[i].bound
               /\ ~(last'.inst = i /\ last'.op \in Mutators \cup {"__init__"}))
                  => /\ inst'[i] = inst[i]
                     /\ \A id \in Identifiers :
                           IsVisible(inst[i], id)' = IsVisible(inst[i], id)
        /\ last'.op = "is_visible"
              => /\ UNCHANGED <<inst, store, registry>>
                 /\ last'.ret = IsVisible(inst[last'.inst], last'.arg)
      ]_vars

\* is_visible answered false on an object with percentage 0 while the stored
\* record of its feature, written by the other object, would give true.
C18_Witness ==
    /\ last.op = "is_visible"
    /\ last.ret = FALSE
    /\ Target.percentage = 0
    /\ StoredAt(Target) = Record(100, <<>>, <<>>)
    /\ IsVisible(Fresh(Target, PyInt(0)), last.arg)

\* C16: when the Redis commands of _save and of delete, sent by two processes
\* for one feature, interleave in any order, then whenever no call is under
\* way a key is in the set of active features exactly when a record is stored
\* at it.
C16_QuiescentRegistryIffStored ==
    (\A i \in InstancePair : pc[i] = "idle")
        => \A key \in Keys : (key \in registry) <=> (store[key] # RedisNil)

\* C19: a mutating call that ends in the error of a Redis command leaves the
\* percentage and the lists of the object as they were before the call.
C19_SaveFailureCommitsNothing ==
    [][ last'.err = "RedisError"
          => /\ last'.op \in Mutators
             /\ _get_redis_data(inst'[last'.inst]) = _get_redis_data(inst[last'.inst])
      ]_vars

\* The object f at percentage p.
AtPercentage(f, p) == [f EXCEPT !.percentage = p]

\* Percentages at which the ramp is compared.
RampLevels == {-1, 0, 1, 49, 50, 51, 99, 100}

\* C21: for an object with its name, group name and lists fixed, an identifier
\* that is visible at a percentage p is visible at every percentage from p up
\* to 100; so after set_percentage returned, every identifier that was visible
\* at a lower percentage of the same object is visible.
C21_RampMonotone ==
    /\ \A i \in InstancePair, id \in Identifiers :
          inst[i].bound
              => LET visible_at == {p \in RampLevels :
                                       IsVisible(AtPercentage(inst[i], p), id)}
                 IN  \A p \in visible_at, q \in RampLevels : p <= q => q \in visible_at
    /\ Returned("set_percentage")
          => \A id \in Identifiers, p \in RampLevels :
                (p <= Target.percentage /\ IsVisible(AtPercentage(Target, p), id))
                    => IsVisible(Target, id)

\* set_percentage(100) returned on an object with a group name, for which an
\* unlisted identifier is hidden at percentage 0 and visible from 50 on.
C21_Witness ==
    /\ Returned("set_percentage")
    /\ Target.percentage = 100
    /\ Target.feature_group_name # None
    /\ \E id \in Identifiers :
          /\ Unlisted(Target, id)
          /\ ~IsVisible(AtPercentage(Target, 0), id)
          /\ IsVisible(AtPercentage(Target, 50), id)
          /\ IsVisible(Target, id)

\* C22: delete() leaves the percentage and the lists of the object as they
\* were; a later mutating call on the object, made while nothing is stored for
\* its feature, stores the whole record of the object, which is what the
\* object held before plus the change of the call, and puts the key into the
\* set of active features.
C22_DeleteKeepsInstance ==
    [][ /\ last'.op = "delete" => inst' = inst
        /\ (/\ last'.op \in Mutators
            /\ last'.err = ""
            /\ store[_get_redis_key(inst[last'.inst].feature_name)] = RedisNil)
              => /\ store'[_get_redis_key(inst[last'.inst].feature_name)]
                       = json_dumps(_get_redis_data(inst'[last'.inst]))
                 /\ _get_redis_key(inst[last'.inst].feature_name) \in registry'
                 /\ last'.op \in {"set_percentage", "activate", "deactivate"}
                       => /\ inst'[last'.inst].whitelist = inst[last'.inst].whitelist
                          /\ inst'[last'.inst].blacklist = inst[last'.inst].blacklist
                 /\ last'.op \in {"add_to_whitelist", "remove_from_whitelist"}
                       => /\ inst'[last'.inst].percentage = inst[last'.inst].percentage
                          /\ inst'[last'.inst].blacklist = inst[last'.inst].blacklist
                 /\ last'.op \in {"add_to_blacklist", "remove_from_blacklist"}
                       => /\ inst'[last'.inst].percentage = inst[last'.inst].percentage
                          /\ inst'[last'.inst].whitelist = inst[last'.inst].whitelist
      ]_vars

\* delete() returned on an object that still holds identifier 3 in its
\* whitelist and percentage 50, while nothing is stored or listed.
C22_Witness ==
    /\ Returned("delete")
    /\ Target.whitelist = <<PyInt(3)>>
    /\ Target.percentage = 50
    /\ StoredAt(Target) = RedisNil
    /\ registry = {}

====
